---- MODULE Spec2Model ----
(***************************************************************************)
(* Model of telegram_signal_executor.py: the free-text signal parser       *)
(* (parse_signals), the risk sizer (calc_units) and the Telegram message   *)
(* handler with its order execution and trade log.                         *)
(*                                                                         *)
(* Text is modelled as a sequence of lexemes, the whitespace-separated     *)
(* pieces of a message.  A lexeme is a record [k, v]: k is its kind        *)
(* ("word" an alphabetic run, "num" a run of the characters [0-9.,],       *)
(* "hash" the character #, "sep" the character -, "nl" a line break) and   *)
(* v its characters (a word is kept as one string, a numeral as the        *)
(* sequence of its characters).  The regular expressions of the source     *)
(* are modelled by what they match on such a sequence.                     *)
(*                                                                         *)
(* Prices are fixed-point numbers counted in 1/Scale; a Python exception   *)
(* is modelled by a result record whose field ok is FALSE.                 *)
(***************************************************************************)
EXTENDS Integers, Sequences, FiniteSets, TLC

VARIABLES
    sz_balance, sz_signal, sz_result, sz_pc,      \* one call of calc_units
    ps_text, ps_result, ps_pc,                    \* one call of parse_signals
    DRY_RUN,        \* the mode switch of the module (False in the source;
                    \* both settings are covered)
    tasks,          \* the handler task of every incoming message
    running,        \* the task the event loop is running, 0 when it is free
    orders,         \* the orders the broker accepted, in order
    log_file,       \* the rows of LOG_FILE, <<>> while the file does not exist
    trace           \* history: what the handlers did, in order

szvars == <<sz_balance, sz_signal, sz_result, sz_pc>>
psvars == <<ps_text, ps_result, ps_pc>>
hvars == <<DRY_RUN, tasks, running, orders, log_file, trace>>

(***************************** configuration *******************************)
\* RISK_PER_TRADE = 0.01 as the fraction RISK_NUM / RISK_DEN
RISK_NUM == 1
RISK_DEN == 100
DEFAULT_UNITS == 100

\* Optional[float] = None: the absent value (prices are never negative)
None == -1

\* numerals carry one decimal digit: a price p is the integer p * Scale
Scale == 10

\* INSTRUMENT_MAP (abridged), in the dict's insertion order
INSTRUMENT_MAP ==
    << <<"eurusd", "EUR_USD">>, <<"gbpusd", "GBP_USD">>,
       <<"xauusd", "XAU_USD">>, <<"gold", "XAU_USD">> >>

NoInstrument == "None"

(******************************* bounds ************************************)
MaxBlocks == 2          \* instrument blocks per message
MaxPrice == 4           \* sizer: whole prices 0 .. MaxPrice
MaxMsgs == 2            \* incoming messages
MaxBalanceSteps == 4    \* sizer: balances 0, 500, .. , 500 * MaxBalanceSteps

(******************************* helpers ***********************************)
Min(S) == CHOOSE x \in S : \A y \in S : x <= y
Abs(x) == IF x < 0 THEN -x ELSE x

\* str.lower() / re.I on the words of the model
Lower(w) ==
    CASE w = "EURUSD" -> "eurusd"
      [] w = "GBPUSD" -> "gbpusd"
      [] w = "BUY" -> "buy"
      [] w = "SL" -> "sl"
      [] w = "TP" -> "tp"
      [] OTHER -> w

W(s) == [k |-> "word", v |-> <<s>>]
N(d) == [k |-> "num", v |-> d]
Hash == [k |-> "hash", v |-> <<"#">>]
Dash == [k |-> "sep", v |-> <<"-">>]
NL == [k |-> "nl", v |-> <<"\n">>]

DigitChars == <<"0", "1", "2", "3", "4", "5", "6", "7", "8", "9">>
IsDigit(c) == \E i \in 1..10 : DigitChars[i] = c
DigitVal(c) == (CHOOSE i \in 1..10 : DigitChars[i] = c) - 1

RECURSIVE DecVal(_)
DecVal(ds) ==
    IF ds = <<>> THEN 0
    ELSE DecVal(SubSeq(ds, 1, Len(ds) - 1)) * 10 + DigitVal(ds[Len(ds)])

(***************************** parse_number ********************************)
\* float(s) of a string over [0-9.]: digits with at most one point and at
\* least one digit; anything else raises ValueError
IsFloat(t) ==
    /\ Cardinality({i \in 1..Len(t) : t[i] = "."}) <= 1
    /\ \E i \in 1..Len(t) : IsDigit(t[i])

FloatVal(t) ==
    LET dots == {i \in 1..Len(t) : t[i] = "."}
        dot == IF dots = {} THEN Len(t) + 1 ELSE Min(dots)
        ip == SubSeq(t, 1, dot - 1)
        fp == SubSeq(t, dot + 1, Len(t))
    IN DecVal(ip) * Scale + (IF fp = <<>> THEN 0 ELSE DigitVal(fp[1]))

parse_number(s) ==
    LET t == SelectSeq(s, LAMBDA c : c # ",")
    IN IF IsFloat(t) THEN [ok |-> TRUE, val |-> FloatVal(t)]
       ELSE [ok |-> FALSE, val |-> None]

(************************** normalize_instrument ***************************)
normalize_instrument(token) ==
    LET t == Lower(token)
        hit == {i \in 1..Len(INSTRUMENT_MAP) : INSTRUMENT_MAP[i][1] = t}
    IN IF hit = {} THEN NoInstrument ELSE INSTRUMENT_MAP[Min(hit)][2]

(***************************** regex patterns ******************************)
IsWord(l, ws) == l.k = "word" /\ Lower(l.v[1]) \in ws
IsNum(l) == l.k = "num"

\* [^A-Za-z0-9]: a lexeme without a letter or digit
NonAlnum(l) ==
    \/ l.k \in {"hash", "sep"}
    \/ l.k = "num" /\ \A i \in 1..Len(l.v) : ~IsDigit(l.v[i])

\* SIDE_RE
SideWords == {"buy", "long", "sell", "short"}
\* SL_RE labels
SlWords == {"sl", "stoploss"}
\* take-profit labels
TpWords == {"tp", "target"}

(****************************** parse_signals ******************************)
\* txt = text.replace("\n", " ").strip(): a line break is white space
Flatten(text) == SelectSeq(text, LAMBDA l : l.k # "nl")

\* first pass: every key of INSTRUMENT_MAP that occurs in txt_low
KeyCandidates(txt) ==
    SelectSeq(INSTRUMENT_MAP,
              LAMBDA kv : \E i \in 1..Len(txt) : IsWord(txt[i], {kv[1]}))

\* second pass: the alphabetic runs of text that normalize and are not yet
\* in the list
RECURSIVE SweepCandidates(_, _, _)
SweepCandidates(text, i, cands) ==
    IF i > Len(text) THEN cands
    ELSE LET token == Lower(text[i].v[1])
             inst == normalize_instrument(token)
             new == /\ text[i].k = "word"
                    /\ inst # NoInstrument
                    /\ \A c \in 1..Len(cands) : cands[c] # <<token, inst>>
         IN SweepCandidates(text, i + 1,
                IF new THEN Append(cands, <<token, inst>>) ELSE cands)

instrument_candidates(text) ==
    SweepCandidates(text, 1, KeyCandidates(Flatten(text)))

\* pattern.search(txt) with pattern (token)[^A-Za-z0-9]*([^#]+), group(0):
\* from the first occurrence of the token that something follows, over the
\* characters that are no letter or digit, up to the next # or the end.
\* <<>> stands for "no match".
Window(txt, token) ==
    LET occ == {i \in 1..(Len(txt) - 1) : IsWord(txt[i], {token})}
    IN IF occ = {} THEN <<>>
       ELSE LET i == Min(occ)
                body == {j \in (i + 1)..Len(txt) : ~NonAlnum(txt[j])}
            IN IF body = {}
               THEN \* nothing but punctuation follows: [^#]+ takes what the
                    \* greedy run gives back before a final #
                    SubSeq(txt, i, IF txt[Len(txt)].k = "hash"
                                   THEN Len(txt) - 1 ELSE Len(txt))
               ELSE LET j == Min(body)
                        stops == {h \in j..Len(txt) : txt[h].k = "hash"}
                    IN SubSeq(txt, i, IF stops = {} THEN Len(txt)
                                      ELSE Min(stops) - 1)

\* SIDE_RE.search(chunk): the position of the first directional keyword, 0
\* when there is none
SidePos(chunk) ==
    LET hits == {i \in 1..Len(chunk) : IsWord(chunk[i], SideWords)}
    IN IF hits = {} THEN 0 ELSE Min(hits)

SideOf(chunk) ==
    LET side_raw == Lower(chunk[SidePos(chunk)].v[1])
    IN IF side_raw \in {"buy", "long"} THEN "buy" ELSE "sell"

\* entry: PRICE_RANGE_RE first, else the first numeral of the chunk
EntryOf(chunk) ==
    LET ranges == {p \in 1..(Len(chunk) - 2) :
                      /\ IsNum(chunk[p])
                      /\ chunk[p + 1].k = "sep"
                      /\ IsNum(chunk[p + 2])}
        nums == {p \in 1..Len(chunk) : IsNum(chunk[p])}
    IN IF ranges # {}
       THEN LET lo == parse_number(chunk[Min(ranges)].v)
                hi == parse_number(chunk[Min(ranges) + 2].v)
            IN [ok |-> lo.ok /\ hi.ok, min |-> lo.val, max |-> hi.val]
       ELSE IF nums # {}
       THEN LET one == parse_number(chunk[Min(nums)].v)
            IN [ok |-> one.ok, min |-> one.val, max |-> one.val]
       ELSE [ok |-> TRUE, min |-> None, max |-> None]

\* SL_RE.search(chunk): the first stop-loss label followed by a numeral
StopLossOf(chunk) ==
    LET hits == {p \in 1..(Len(chunk) - 1) :
                    IsWord(chunk[p], SlWords) /\ IsNum(chunk[p + 1])}
    IN IF hits = {} THEN [ok |-> TRUE, val |-> None]
       ELSE parse_number(chunk[Min(hits) + 1].v)

\* re.finditer((tp\d*|target)[:=\s]*([\d.,]+), s): every labelled numeral in
\* order; a numeral that does not convert is passed over (try / except)
RECURSIVE TpScan(_, _)
TpScan(s, p) ==
    IF p >= Len(s) THEN <<>>
    ELSE IF IsWord(s[p], TpWords) /\ IsNum(s[p + 1])
    THEN LET n == parse_number(s[p + 1].v)
         IN (IF n.ok THEN <<n.val>> ELSE <<>>) \o TpScan(s, p + 2)
    ELSE TpScan(s, p + 1)

\* the scan of the whole message left out
TakeProfits_NoFallback(chunk, txt) == TpScan(chunk, 1)

TakeProfits(chunk, txt) ==
    LET tps == TpScan(chunk, 1)
    IN IF tps = <<>> THEN TpScan(txt, 1) ELSE tps

\* the "if not m_side: continue" left out: a window without keyword is a buy
ExtractWindow_NoReject(token, inst, txt) ==
    LET chunk == Window(txt, token)
    IN IF chunk = <<>> THEN [kind |-> "skip"]
       ELSE IF ~EntryOf(chunk).ok THEN [kind |-> "raise"]
       ELSE IF ~StopLossOf(chunk).ok THEN [kind |-> "raise"]
       ELSE [kind |-> "signal",
             sig |-> [side |-> IF SidePos(chunk) = 0 THEN "buy" ELSE SideOf(chunk),
                      instrument |-> inst,
                      entry_min |-> EntryOf(chunk).min,
                      entry_max |-> EntryOf(chunk).max,
                      sl |-> StopLossOf(chunk).val,
                      tps |-> TakeProfits(chunk, txt)]]

\* the body of the loop over the candidates, for one candidate:
\* "skip" (continue), "raise" (ValueError leaves parse_signals) or "signal"
ExtractWindow(token, inst, txt) ==
    LET chunk == Window(txt, token)
    IN IF chunk = <<>> THEN [kind |-> "skip"]
       ELSE IF SidePos(chunk) = 0 THEN [kind |-> "skip"]
       ELSE IF ~EntryOf(chunk).ok THEN [kind |-> "raise"]
       ELSE IF ~StopLossOf(chunk).ok THEN [kind |-> "raise"]
       ELSE [kind |-> "signal",
             sig |-> [side |-> SideOf(chunk),
                      instrument |-> inst,
                      entry_min |-> EntryOf(chunk).min,
                      entry_max |-> EntryOf(chunk).max,
                      sl |-> StopLossOf(chunk).val,
                      tps |-> TakeProfits(chunk, txt)]]

RECURSIVE ParseLoop(_, _, _, _)
ParseLoop(cands, c, txt, signals) ==
    IF c > Len(cands) THEN [ok |-> TRUE, signals |-> signals]
    ELSE LET w == ExtractWindow(cands[c][1], cands[c][2], txt)
         IN IF w.kind = "raise" THEN [ok |-> FALSE, signals |-> <<>>]
            ELSE ParseLoop(cands, c + 1, txt,
                     IF w.kind = "signal" THEN Append(signals, w.sig)
                     ELSE signals)

\* [ok |-> FALSE, ...]: the call raised ValueError and returned nothing
parse_signals(text) ==
    ParseLoop(instrument_candidates(text), 1, Flatten(text), <<>>)

(******************************* calc_units ********************************)
\* "not x" of an Optional[float]: true of None and of 0.0
Falsy(x) == x = None \/ x = 0

\* int(x) of the quotient n / d of two non-negative numbers, negated for
\* a sell: rounds toward zero
calc_units_line(balance, signal) ==
    IF Falsy(signal.sl) \/ Falsy(signal.entry_min)
    THEN [ret |-> DEFAULT_UNITS, line |-> 141]
    ELSE LET pip_risk == Abs(signal.entry_min - signal.sl)
             mag == (balance * RISK_NUM * Scale) \div (RISK_DEN * pip_risk)
         IN IF pip_risk = 0
            THEN [ret |-> DEFAULT_UNITS, line |-> 149]
            ELSE [ret |-> IF signal.side = "buy" THEN mag ELSE -mag,
                  line |-> 152]

calc_units(balance, signal) == calc_units_line(balance, signal).ret

(***************************************************************************)
(* The messages of the model: up to MaxBlocks instrument blocks, each a    *)
(* head (the instrument, with or without a leading #), an optional side    *)
(* keyword and a group of price fields.  The numerals of block b start     *)
(* with the digit b, so that a value tells the block it was written in.    *)
(***************************************************************************)
D(b) == DigitChars[b + 1]
EntryNum(b) == N(<<D(b), ",", "2">>)          \* "b,2"  = b2.0
EntryHi(b) == N(<<D(b), "3">>)                \* "b3"   = b3.0
SlNum(b) == N(<<D(b), "0", ".", "5">>)        \* "b0.5"
Tp1Num(b) == N(<<D(b), "4">>)                 \* "b4"   = b4.0
Tp2Num(b) == N(<<D(b), "5", ".">>)            \* "b5."  = b5.0
BadNum == N(<<"1", ".", "2", ".", "3">>)      \* "1.2.3"
Comma == N(<<",">>)                           \* ","

Heads ==
    << <<Hash, W("EURUSD")>>, <<W("eurusd")>>,
       <<NL, Hash, W("gbpusd")>>, <<W("gbpusd")>> >>

Sides == << <<W("buying")>>, <<W("BUY")>>, <<W("short")>> >>

CompleteFields(b) ==
    <<EntryNum(b), W("SL"), SlNum(b), W("tp"), Tp1Num(b), W("target"), Tp2Num(b)>>

Fields(b) ==
    << <<>>,
       CompleteFields(b),
       <<EntryNum(b), Dash, EntryHi(b), W("sl"), SlNum(b)>>,
       <<BadNum, W("sl"), SlNum(b), W("tp"), Tp1Num(b)>>,
       <<EntryNum(b), W("sl"), SlNum(b), W("TP"), BadNum>>,
       <<EntryNum(b), W("stoploss"), Comma>> >>

\* a block is chosen by the indices of its head, its side and its fields
Choices == (1..Len(Heads)) \X (1..Len(Sides)) \X (1..Len(Fields(1)))

Block(b, c) == Heads[c[1]] \o Sides[c[2]] \o Fields(b)[c[3]]

RECURSIVE BlocksFrom(_, _)
BlocksFrom(cs, b) ==
    IF b > Len(cs) THEN <<>> ELSE Block(b, cs[b]) \o BlocksFrom(cs, b + 1)

Message(cs) == BlocksFrom(cs, 1)

NoResult == [ok |-> TRUE, signals |-> <<>>]

(************************ one call of parse_signals ************************)
ParserInit ==
    /\ \E n \in 1..MaxBlocks : \E cs \in [1..n -> Choices] : ps_text = Message(cs)
    /\ ps_result = NoResult
    /\ ps_pc = "call"

ParseSignals ==
    /\ ps_pc = "call"
    /\ ps_result' = parse_signals(ps_text)
    /\ ps_pc' = "done"
    /\ UNCHANGED <<ps_text, szvars, hvars>>

(************************* one call of calc_units **************************)
Balances == {500 * n : n \in 0..MaxBalanceSteps}
Prices == {Scale * p : p \in 0..MaxPrice}

SizerSignals ==
    {[side |-> sd, instrument |-> "EUR_USD", entry_min |-> e, entry_max |-> e,
      sl |-> s, tps |-> <<>>] :
         sd \in {"buy", "sell"}, e \in Prices \cup {None}, s \in Prices \cup {None}}

NoUnits == [ret |-> 0, line |-> 0]

SizerInit ==
    /\ sz_balance \in Balances
    /\ sz_signal \in SizerSignals
    /\ sz_result = NoUnits
    /\ sz_pc = "call"

CalcUnits ==
    /\ sz_pc = "call"
    /\ sz_result' = calc_units_line(sz_balance, sz_signal)
    /\ sz_pc' = "done"
    /\ UNCHANGED <<sz_balance, sz_signal, psvars, hvars>>

(************************** the message handler ****************************)
\* ALLOWED_CHATS, its chat ids abridged to small numbers; chat 3 is not in it
ALLOWED_CHATS == {1, 2}

\* the balance the broker reports
AccountBalances == {10000}

\* no directional keyword: no signal
TxtNoSide == <<W("eurusd"), EntryNum(1), Dash, EntryHi(1)>>
\* the first window has no keyword of its own ("buying"): one signal
TxtMixed ==
    <<Hash, W("EURUSD"), W("buying")>> \o CompleteFields(1)
        \o <<NL, Hash, W("gbpusd"), W("short")>> \o CompleteFields(2)
\* no # between the blocks, the first window holds both keywords: two signals
TxtMerged ==
    <<W("eurusd"), W("BUY")>> \o CompleteFields(1)
        \o <<W("gbpusd"), W("short")>> \o CompleteFields(2)
\* a malformed entry: parse_signals raises
TxtBad == <<W("eurusd"), W("BUY"), BadNum>>

HandlerTexts == {TxtNoSide, TxtMixed, TxtMerged, TxtBad}

\* an incoming event: forwarded or not, from an allowed chat or not
Arrivals == {<<FALSE, 1>>, <<TRUE, 1>>, <<FALSE, 3>>}

NewTasks ==
    {[pc |-> "new", fwd |-> a[1], chat |-> a[2], text |-> t,
      sigs |-> <<>>, i |-> 0, balance |-> 0, units |-> 0] :
         a \in Arrivals, t \in HandlerTexts}

Ev(m, i, what) == [m |-> m, i |-> i, ev |-> what]

\* as if the requests and the file write of execute_order were awaited
Yields_EveryRequest(pc) == pc \in {"get_chat", "order", "log"}

\* the awaits of handler at which the coroutine gives the event loop away:
\* event.get_chat() only; execute_order has no await inside, its requests
\* and its file write block the loop
Yields(pc) == pc = "get_chat"

\* if event.message.fwd_from: return
SkipForwarded(t) == t.fwd

\* the allow-list test left out
ChatRejected_Never(t) == FALSE

\* if event.chat_id not in ALLOWED_CHATS: return
ChatRejected(t) == t.chat \notin ALLOWED_CHATS

\* log_trade called before the order is submitted
execute_order_next_LogFirst(pc, dry) ==
    CASE pc = "balance" -> "log"
      [] pc = "log" -> IF dry THEN "return" ELSE "order"
      [] pc = "order" -> "return"

\* the order of the steps of execute_order: balance, then the order unless
\* DRY_RUN, then the log, then return
execute_order_next(pc, dry) ==
    CASE pc = "balance" -> IF dry THEN "log" ELSE "order"
      [] pc = "order" -> "log"
      [] pc = "log" -> "return"

\* order_data of execute_order
order_data(signal, units) ==
    [instrument |-> signal.instrument,
     units |-> units,
     stopLossOnFill |-> IF Falsy(signal.sl) THEN None ELSE signal.sl,
     takeProfitOnFill |-> IF signal.tps = <<>> THEN None ELSE signal.tps[1]]

LogHeader == [kind |-> "header"]

\* log_trade: the header first when the file does not exist, then the row
log_trade(file, signal, source, units, mode) ==
    LET row == [kind |-> "row", source |-> source,
                instrument |-> signal.instrument, side |-> signal.side,
                units |-> units, entry_min |-> signal.entry_min,
                entry_max |-> signal.entry_max, stop_loss |-> signal.sl,
                take_profits |-> signal.tps, mode |-> mode]
    IN (IF file = <<>> THEN <<LogHeader>> ELSE file) \o <<row>>

\* who holds the event loop after task m has moved to pc
LoopAfter(m, pc) ==
    IF pc \in {"done", "failed"} \/ Yields(pc) THEN 0 ELSE m

CanRun(m) == running \in {0, m}

\* after a step of execute_order for signal i of task m: the next step, or
\* back in the for loop of handler: the next signal, or the end
Advance(m, t, nextpc) ==
    LET t2 == IF nextpc # "return" THEN [t EXCEPT !.pc = nextpc]
              ELSE IF t.i < Len(t.sigs)
              THEN [t EXCEPT !.pc = "balance", !.i = t.i + 1]
              ELSE [t EXCEPT !.pc = "done"]
    IN /\ tasks' = [tasks EXCEPT ![m] = t2]
       /\ running' = LoopAfter(m, t2.pc)

\* an exception leaves execute_order and handler: the task is over
Fail(m) ==
    /\ tasks' = [tasks EXCEPT ![m].pc = "failed"]
    /\ running' = 0

\* handler, up to the await of event.get_chat()
HandlerStart(m) ==
    /\ tasks[m].pc = "new"
    /\ running = 0
    /\ LET pc2 == IF SkipForwarded(tasks[m]) THEN "done" ELSE "get_chat"
       IN /\ tasks' = [tasks EXCEPT ![m].pc = pc2]
          /\ running' = LoopAfter(m, pc2)
    /\ UNCHANGED <<DRY_RUN, orders, log_file, trace, szvars, psvars>>

\* handler, from the return of event.get_chat() to the first execute_order
HandlerResume(m) ==
    /\ tasks[m].pc = "get_chat"
    /\ running = 0
    /\ IF ChatRejected(tasks[m])
       THEN /\ tasks' = [tasks EXCEPT ![m].pc = "done"]
            /\ running' = 0
            /\ UNCHANGED trace
       ELSE LET r == parse_signals(tasks[m].text)
                pc2 == IF ~r.ok THEN "failed"
                       ELSE IF r.signals = <<>> THEN "done" ELSE "balance"
            IN /\ tasks' = [tasks EXCEPT ![m].pc = pc2,
                                         ![m].sigs = r.signals,
                                         ![m].i = IF pc2 = "balance" THEN 1 ELSE 0]
               /\ running' = LoopAfter(m, pc2)
               /\ trace' = Append(trace,
                      Ev(m, 0, IF r.ok THEN "parse" ELSE "parse_raise"))
    /\ UNCHANGED <<DRY_RUN, orders, log_file, szvars, psvars>>

\* execute_order: client.request(r_acc), balance, calc_units
ReadBalance(m) ==
    /\ tasks[m].pc = "balance"
    /\ CanRun(m)
    /\ \/ \E b \in AccountBalances :
            LET t == tasks[m]
                u == calc_units(b, t.sigs[t.i])
            IN /\ Advance(m, [t EXCEPT !.balance = b, !.units = u],
                          execute_order_next("balance", DRY_RUN))
               /\ trace' = Append(trace, Ev(m, t.i, "balance"))
       \/ /\ Fail(m)
          /\ trace' = Append(trace, Ev(m, tasks[m].i, "balance_fail"))
    /\ UNCHANGED <<DRY_RUN, orders, log_file, szvars, psvars>>

\* execute_order: client.request(orders.OrderCreate(...))
SubmitOrder(m) ==
    /\ tasks[m].pc = "order"
    /\ CanRun(m)
    /\ \/ LET t == tasks[m]
          IN /\ orders' = Append(orders, order_data(t.sigs[t.i], t.units))
             /\ Advance(m, t, execute_order_next("order", DRY_RUN))
             /\ trace' = Append(trace, Ev(m, t.i, "order"))
       \/ /\ Fail(m)
          /\ trace' = Append(trace, Ev(m, tasks[m].i, "order_fail"))
          /\ UNCHANGED orders
    /\ UNCHANGED <<DRY_RUN, log_file, szvars, psvars>>

\* execute_order: log_trade(signal, source, units, mode)
LogTrade(m) ==
    /\ tasks[m].pc = "log"
    /\ CanRun(m)
    /\ \/ LET t == tasks[m]
          IN /\ log_file' = log_trade(log_file, t.sigs[t.i], t.chat, t.units,
                                      IF DRY_RUN THEN "DRY_RUN" ELSE "LIVE")
             /\ Advance(m, t, execute_order_next("log", DRY_RUN))
             /\ trace' = Append(trace, Ev(m, t.i, "log"))
       \/ /\ Fail(m)
          /\ trace' = Append(trace, Ev(m, tasks[m].i, "log_fail"))
          /\ UNCHANGED log_file
    /\ UNCHANGED <<DRY_RUN, orders, szvars, psvars>>

HandlerInit ==
    /\ DRY_RUN \in BOOLEAN
    /\ tasks \in [1..MaxMsgs -> NewTasks]
    /\ running = 0
    /\ orders = <<>>
    /\ log_file = <<>>
    /\ trace = <<>>

HandlerIdle ==
    /\ DRY_RUN = FALSE
    /\ tasks = <<>>
    /\ running = 0
    /\ orders = <<>>
    /\ log_file = <<>>
    /\ trace = <<>>

(***************************** specifications ******************************)
vars == <<szvars, psvars, hvars>>

SizerIdle ==
    /\ sz_balance = 0
    /\ sz_signal = CHOOSE x \in SizerSignals : TRUE
    /\ sz_result = NoUnits
    /\ sz_pc = "idle"

ParserIdle ==
    /\ ps_text = <<>>
    /\ ps_result = NoResult
    /\ ps_pc = "idle"

\* calc_units alone, on every balance and signal of the bounds
SizerNext == CalcUnits
InitSizer == SizerInit /\ ParserIdle /\ HandlerIdle
SpecSizer == InitSizer /\ [][SizerNext]_vars

\* parse_signals alone, on every message of the bounds
ParserNext == ParseSignals
InitParser == ParserInit /\ SizerIdle /\ HandlerIdle
SpecParser == InitParser /\ [][ParserNext]_vars

\* the handlers of MaxMsgs incoming messages on one event loop
Init == HandlerInit /\ SizerIdle /\ ParserIdle

Next ==
    \/ \E m \in 1..MaxMsgs : HandlerStart(m)
    \/ \E m \in 1..MaxMsgs : HandlerResume(m)
    \/ \E m \in 1..MaxMsgs : ReadBalance(m)
    \/ \E m \in 1..MaxMsgs : SubmitOrder(m)
    \/ \E m \in 1..MaxMsgs : LogTrade(m)

Spec == Init /\ [][Next]_vars

(******************************** claims ***********************************)
SideKeyword(l) ==
    l.k = "word" /\ Lower(l.v[1]) \in {"buy", "long", "sell", "short"}

HasKeyword(s) == \E i \in 1..Len(s) : SideKeyword(s[i])

\* the side the first directional keyword of s stands for
FirstKeywordSide(s) ==
    LET first == Min({i \in 1..Len(s) : SideKeyword(s[i])})
    IN IF Lower(s[first].v[1]) \in {"buy", "long"} THEN "buy" ELSE "sell"

\* the candidates whose window holds a directional keyword, in the order of
\* the candidate list
KeptCandidates(text) ==
    SelectSeq(instrument_candidates(text),
              LAMBDA c : HasKeyword(Window(Flatten(text), c[1])))

\* the labelled take-profit numbers of s in order of appearance: the values
\* of the numerals that follow a take-profit label and are numbers
LabelledTps(s) ==
    LET at == {p \in 1..(Len(s) - 1) :
                  /\ s[p].k = "word" /\ Lower(s[p].v[1]) \in {"tp", "target"}
                  /\ s[p + 1].k = "num"
                  /\ parse_number(s[p + 1].v).ok}
        nth(k) == CHOOSE p \in at : Cardinality({q \in at : q < p}) = k - 1
    IN [k \in 1..Cardinality(at) |-> parse_number(s[nth(k) + 1].v).val]

Has(m, i, what) == \E p \in 1..Len(trace) : trace[p] = Ev(m, i, what)
EventsOf(m) == SelectSeq(trace, LAMBDA e : e.m = m)
DataRows == SelectSeq(log_file, LAMBDA r : r.kind = "row")
LogEvents == SelectSeq(trace, LAMBDA e : e.ev = "log")

\* the exact value of balance * RISK_PER_TRADE / |entry_min - sl|, rounded
\* toward zero
RiskUnits(balance, entry, stop) ==
    (balance * RISK_NUM * Scale) \div (RISK_DEN * Abs(entry - stop))

\* C1: whenever sl and entry_min are both set (the value 0 included) and
\* differ, calc_units returns balance * risk fraction / |entry_min - sl|
\* rounded toward zero, positive for a buy and negative for a sell.
C1_SizedBySide ==
    (/\ sz_pc = "done"
     /\ sz_signal.sl # None
     /\ sz_signal.entry_min # None
     /\ sz_signal.entry_min # sz_signal.sl)
    => LET mag == RiskUnits(sz_balance, sz_signal.entry_min, sz_signal.sl)
       IN /\ sz_signal.side = "buy" => sz_result.ret = mag
          /\ sz_signal.side = "sell" => sz_result.ret = -mag

\* C2: calc_units returns exactly DEFAULT_UNITS, unsigned, when sl is
\* absent, entry_min is absent or their distance is 0, and takes that
\* fallback in no other case.
C2_FallbackOnlyWhenAbsentOrZero ==
    sz_pc = "done"
    => LET fallback == sz_result.line \in {141, 149}
           degenerate == \/ sz_signal.sl = None
                         \/ sz_signal.entry_min = None
                         \/ sz_signal.entry_min = sz_signal.sl
       IN /\ fallback <=> degenerate
          /\ fallback => sz_result.ret = DEFAULT_UNITS

\* C3: when the entry or stop-loss numeral of one window of a message with
\* several candidate windows does not convert, parse_signals does not fail:
\* it drops that window and returns the signals of every other window.
C3_MalformedWindowDroppedAlone ==
    LET txt == Flatten(ps_text)
        kept == KeptCandidates(ps_text)
        bad(c) == ExtractWindow(c[1], c[2], txt).kind = "raise"
        good == SelectSeq(kept, LAMBDA c : ~bad(c))
    IN (/\ ps_pc = "done"
        /\ Len(instrument_candidates(ps_text)) >= 2
        /\ \E k \in 1..Len(kept) : bad(kept[k]))
       => /\ ps_result.ok
          /\ Len(ps_result.signals) = Len(good)
          /\ \A k \in 1..Len(good) :
                ps_result.signals[k] = ExtractWindow(good[k][1], good[k][2], txt).sig

\* C4: once the handler of a message that yielded n >= 1 signals is over,
\* execute_order has been attempted (its balance read was issued) for every
\* one of the n signals, whatever failed for an earlier one.
C4_EverySignalAttempted ==
    \A m \in DOMAIN tasks :
        (tasks[m].pc \in {"done", "failed"} /\ Len(tasks[m].sigs) >= 1)
        => \A i \in 1..Len(tasks[m].sigs) :
              Has(m, i, "balance") \/ Has(m, i, "balance_fail")

\* the two-block messages of C5: two different instruments, each with its
\* own side keyword, entry, stop-loss and take-profits
TwoCompleteBlocks ==
    {cs \in [1..2 -> Choices] :
        /\ (cs[1][1] \in {1, 2}) # (cs[2][1] \in {1, 2})
        /\ \A b \in 1..2 : cs[b][2] \in {2, 3} /\ cs[b][3] = 2}

BlockInstrument(c) == IF c[1] \in {1, 2} THEN "EUR_USD" ELSE "GBP_USD"
BlockSide(c) == IF c[2] = 2 THEN "buy" ELSE "sell"

\* C5: a message of two distinct instruments, each followed by its own side
\* keyword, entry, stop-loss and take-profits, gives exactly two signals,
\* and every field of each comes from the text of its own block.
C5_TwoBlocksIsolated ==
    \A cs \in TwoCompleteBlocks :
        (ps_pc = "done" /\ ps_text = Message(cs))
        => /\ ps_result.ok
           /\ Len(ps_result.signals) = 2
           /\ \A b \in 1..2 : \E k \in 1..2 :
                 ps_result.signals[k] =
                     [side |-> BlockSide(cs[b]),
                      instrument |-> BlockInstrument(cs[b]),
                      entry_min |-> (10 * b + 2) * Scale,
                      entry_max |-> (10 * b + 2) * Scale,
                      sl |-> (10 * b) * Scale + 5,
                      tps |-> <<(10 * b + 4) * Scale, (10 * b + 5) * Scale>>]

\* C6: the tps of every produced signal are the labelled take-profit
\* numbers of its own window in order of appearance; only when the window
\* has none are they those of the whole message (none when it has none).
C6_TakeProfitsOfWindowElseMessage ==
    LET txt == Flatten(ps_text)
        kept == KeptCandidates(ps_text)
    IN (ps_pc = "done" /\ ps_result.ok)
       => /\ Len(ps_result.signals) = Len(kept)
          /\ \A k \in 1..Len(kept) :
                LET own == LabelledTps(Window(txt, kept[k][1]))
                IN ps_result.signals[k].tps =
                       IF own # <<>> THEN own ELSE LabelledTps(txt)

\* a message with a signal that has take-profits of its own and a signal
\* whose window has none and that took those of the message
C6_Witness ==
    LET txt == Flatten(ps_text)
        kept == KeptCandidates(ps_text)
    IN /\ ps_pc = "done" /\ ps_result.ok
       /\ Len(ps_result.signals) = 2
       /\ \E j, k \in 1..2 :
             /\ LabelledTps(Window(txt, kept[j][1])) # <<>>
             /\ LabelledTps(Window(txt, kept[k][1])) = <<>>
             /\ ps_result.signals[k].tps # <<>>

\* C7: a window without a whole-word directional keyword never becomes a
\* signal: the signals of a message are those of its windows that hold a
\* keyword, each with the side of the first keyword of its window; a
\* message without any keyword yields no signal, no balance read, no order
\* and no log record.
C7_NoKeywordNoSignal ==
    \A m \in DOMAIN tasks :
        LET t == tasks[m]
            txt == Flatten(t.text)
            kept == KeptCandidates(t.text)
        IN Has(m, 0, "parse")
           => /\ Len(t.sigs) = Len(kept)
              /\ \A k \in 1..Len(kept) :
                    /\ t.sigs[k].side \in {"buy", "sell"}
                    /\ t.sigs[k].side = FirstKeywordSide(Window(txt, kept[k][1]))
              /\ ~HasKeyword(txt)
                 => /\ t.sigs = <<>>
                    /\ EventsOf(m) = <<Ev(m, 0, "parse")>>
                    /\ \A r \in 1..Len(DataRows) :
                          \E m2 \in DOMAIN tasks : m2 # m /\ Has(m2, 1, "log")

\* the parser half of C7 on every message of SpecParser: the signals are
\* those of the windows that hold a keyword, each with the side of the first
\* keyword of its window
ParserSignalsAreKeywordWindows ==
    LET txt == Flatten(ps_text)
        kept == KeptCandidates(ps_text)
    IN (ps_pc = "done" /\ ps_result.ok)
       => /\ Len(ps_result.signals) = Len(kept)
          /\ \A k \in 1..Len(kept) :
                ps_result.signals[k].side = FirstKeywordSide(Window(txt, kept[k][1]))
          /\ ~HasKeyword(txt) => ps_result.signals = <<>>

\* a parsed message without keyword next to a message whose window with a
\* keyword was logged and whose window without one was dropped
C7_Witness ==
    \E m, m2 \in DOMAIN tasks :
        /\ Has(m, 0, "parse") /\ ~HasKeyword(Flatten(tasks[m].text))
        /\ tasks[m].pc = "done"
        /\ Has(m2, 1, "log")
        /\ Len(tasks[m2].sigs) < Len(instrument_candidates(tasks[m2].text))

\* C8: a message that is forwarded or whose chat is not in ALLOWED_CHATS is
\* never parsed and never causes a balance read, an order or a log record.
C8_FilteredNeverProcessed ==
    /\ \A m \in DOMAIN tasks :
          (tasks[m].fwd \/ tasks[m].chat \notin ALLOWED_CHATS)
          => /\ EventsOf(m) = <<>>
             /\ tasks[m].sigs = <<>>
             /\ tasks[m].pc \in {"new", "get_chat", "done"}
    /\ Len(orders) = Len(SelectSeq(trace, LAMBDA e : e.ev = "order"))
    /\ Len(DataRows) = Len(LogEvents)
    /\ \A r \in 1..Len(DataRows) : DataRows[r].source \in ALLOWED_CHATS

\* a forwarded message and a message of a foreign chat, both over, next to
\* a message that was logged
C8_Witness ==
    \E m1, m2 \in DOMAIN tasks :
        /\ tasks[m1].pc = "done"
        /\ tasks[m1].fwd \/ tasks[m1].chat \notin ALLOWED_CHATS
        /\ Has(m2, 1, "log")

\* C9: a log record of a signal is written only after the balance read of
\* that signal and, in live mode, after its order was accepted; a failed
\* balance read or order leaves no record of the signal; in dry-run mode
\* records are written and no order is submitted.
C9_LogAfterBalanceAndOrder ==
    /\ \A q \in 1..Len(trace) :
          trace[q].ev = "log"
          => \E p \in 1..(q - 1) :
                /\ trace[p] = Ev(trace[q].m, trace[q].i, "balance")
                /\ ~DRY_RUN
                   => \E o \in (p + 1)..(q - 1) :
                         trace[o] = Ev(trace[q].m, trace[q].i, "order")
    /\ \A p \in 1..Len(trace) :
          trace[p].ev \in {"balance_fail", "order_fail"}
          => ~Has(trace[p].m, trace[p].i, "log")
    /\ DRY_RUN
       => /\ orders = <<>>
          /\ \A p \in 1..Len(trace) : trace[p].ev \notin {"order", "order_fail"}
    /\ Len(DataRows) = Len(LogEvents)
    /\ \A r \in 1..Len(DataRows) :
          DataRows[r].mode = IF DRY_RUN THEN "DRY_RUN" ELSE "LIVE"

\* live mode: one signal logged after its order, another one whose order
\* failed
C9_Witness ==
    /\ ~DRY_RUN
    /\ \E m, m2 \in DOMAIN tasks : \E i, i2 \in 1..2 :
          /\ Has(m, i, "log") /\ Has(m, i, "order")
          /\ Has(m2, i2, "order_fail")

StepRank(what) ==
    CASE what \in {"balance", "balance_fail"} -> 1
      [] what \in {"order", "order_fail"} -> 2
      [] what \in {"log", "log_fail"} -> 3
      [] OTHER -> 0

\* C10: the signals of a message are executed one after another in list
\* order: the steps of a message appear in the order (signal, step), the
\* balance read of signal i+1 comes after the order and the log write of
\* signal i, no step of another message falls between the balance read and
\* a later step of the same signal, and the log rows are those of the log
\* writes in their order.
C10_SignalsOneAfterAnother ==
    /\ \A p, q \in 1..Len(trace) :
          (p < q /\ trace[p].m = trace[q].m)
          => \/ trace[p].i < trace[q].i
             \/ /\ trace[p].i = trace[q].i
                /\ StepRank(trace[p].ev) < StepRank(trace[q].ev)
    /\ \A q \in 1..Len(trace) :
          (trace[q].ev \in {"balance", "balance_fail"} /\ trace[q].i > 1)
          => \E p \in 1..(q - 1) :
                /\ trace[p] = Ev(trace[q].m, trace[q].i - 1, "log")
                /\ ~DRY_RUN
                   => \E o \in 1..(p - 1) :
                         trace[o] = Ev(trace[q].m, trace[q].i - 1, "order")
    /\ \A p, q \in 1..Len(trace) :
          (/\ p < q
           /\ trace[p].ev = "balance"
           /\ trace[q].m = trace[p].m /\ trace[q].i = trace[p].i)
          => \A r \in p..q : trace[r].m = trace[p].m
    /\ Len(DataRows) = Len(LogEvents)
    /\ \A r \in 1..Len(DataRows) :
          LET sig == tasks[LogEvents[r].m].sigs[LogEvents[r].i]
          IN /\ DataRows[r].instrument = sig.instrument
             /\ DataRows[r].side = sig.side
             /\ DataRows[r].take_profits = sig.tps

\* two messages executed in one run, one of them with two signals logged
C10_Witness ==
    \E m1, m2 \in DOMAIN tasks :
        /\ m1 # m2
        /\ Has(m1, 2, "log")
        /\ Has(m2, 1, "log")

====
